---------------------------- MODULE Spec2Model ----------------------------
(***************************************************************************)
(* A model of pmlb/pmlb.py: fetch_data with its local cache, the remote    *)
(* existence check of get_dataset_url, and filter_datasets.                *)
(*                                                                         *)
(* The remote host, the HTTP client and the file system are the            *)
(* environment: every request is answered by a nondeterministic reply, and *)
(* the user may plant or delete cache files between calls.                 *)
(***************************************************************************)
EXTENDS Naturals, Sequences, FiniteSets, TLC

(***************************************************************************)
(* Bounds of the model.                                                    *)
(***************************************************************************)
\* The largest number of data rows of a remote or planted file.
MaxRows == 2

(***************************************************************************)
(* Module-level constants of pmlb.py.                                      *)
(***************************************************************************)
\* from .dataset_lists import classification_dataset_names, ...
classification_dataset_names == {"a"}

regression_dataset_names == {"b"}

\* dataset_names = classification_dataset_names + regression_dataset_names
dataset_names == classification_dataset_names \cup regression_dataset_names

\* suffix = '.tsv.gz'
suffix == ".tsv.gz"

\* The identifiers a caller may pass: the Catalog and one unknown name.
Names == dataset_names \cup {"x"}

\* local_cache_dir=None
None == "None"

\* The cache roots a caller may pass.
Roots == {"r1"}

\* The text of the one domain error, raised at lines 65, 79 and 108.
UnknownDataset == "ValueError: Dataset not found in PMLB."

(***************************************************************************)
(* Files: a gzip-compressed TSV stream is a header and rows of text        *)
(* tokens.  A stream that does not parse (truncated, garbled) is Corrupt.  *)
(***************************************************************************)
SeqsUpTo(S, n) == UNION {[1..k -> S] : k \in 0..n}

Tsv(cols, rows) == [cols |-> cols, rows |-> rows, kind |-> "tsv"]

NoFile == [cols |-> <<>>, rows |-> <<>>, kind |-> "absent"]

Corrupt == [cols |-> <<>>, rows |-> <<>>, kind |-> "corrupt"]

\* The rows a hosted data set is made of: a feature cell and a target cell.
RemoteRows == {<<"NA", "0">>, <<"1", "1">>}

\* What the remote may serve for a data set: PMLB's format, a feature column
\* and the `target` column.
RemoteFiles == {Tsv(<<"f", "target">>, rs) : rs \in SeqsUpTo(RemoteRows, MaxRows)}

\* A well-formed table without a `target` column, as a user may plant it.
NoTargetFile == Tsv(<<"f">>, <<(<<"1">>), (<<"NA">>)>>)

(***************************************************************************)
(* pd.read_csv(..., sep='\t', compression='gzip'): empty cells and "NA"    *)
(* are missing values; a column is int64 when every cell is an integer     *)
(* literal and float64 otherwise.                                          *)
(***************************************************************************)
NaTokens == {"", "NA"}

IntTokens == {"0", "1"}

NumOf(tok) == IF tok \in {"1", "1.0"} THEN 1 ELSE 0

NaN == [n |-> 0, k |-> "nan"]

ColKind(rows, j) ==
    IF \A i \in 1..Len(rows) : rows[i][j] \in IntTokens THEN "int" ELSE "float"

ParseCell(tok, kind) ==
    IF tok \in NaTokens THEN NaN ELSE [n |-> NumOf(tok), k |-> kind]

ReadCsv(file) ==
    IF file.kind /= "tsv"
    THEN [cols |-> <<>>, rows |-> <<>>, ok |-> FALSE]
    ELSE [cols |-> file.cols,
          rows |-> [i \in 1..Len(file.rows) |->
                      [j \in 1..Len(file.cols) |->
                         ParseCell(file.rows[i][j], ColKind(file.rows, j))]],
          ok |-> TRUE]

(***************************************************************************)
(* dataset.to_csv(path, sep='\t', compression='gzip', index=False): a      *)
(* missing value is written as the empty cell, an int64 as its digits and  *)
(* a float64 with its fraction.                                            *)
(***************************************************************************)
IntStr(n) == IF n = 1 THEN "1" ELSE "0"

FormatCell(v) ==
    CASE v.k = "nan" -> ""
      [] v.k = "int" -> IntStr(v.n)
      [] OTHER -> IntStr(v.n) \o ".0"

FormatRows(ds) ==
    [i \in 1..Len(ds.rows) |->
       [j \in 1..Len(ds.cols) |-> FormatCell(ds.rows[i][j])]]

\* A faulty variant: index=False forgotten, the row index is written as a first,
\* unnamed column (read back as "Unnamed: 0").
ToCsvWithIndex(ds) ==
    Tsv(<<"Unnamed: 0">> \o ds.cols,
        [i \in 1..Len(ds.rows) |-> <<IntStr(i - 1)>> \o FormatRows(ds)[i]])

ToCsv(ds) == Tsv(ds.cols, FormatRows(ds))

(***************************************************************************)
(* Lines 89-96: dropna and the return_X_y split.                           *)
(***************************************************************************)
HasNa(row) == \E j \in 1..Len(row) : row[j].k = "nan"

\* A faulty variant: dropna(how='all'), only rows that are missing throughout go.
DropNaAll(rows) ==
    SelectSeq(rows, LAMBDA r : \E j \in 1..Len(r) : r[j].k /= "nan")

\* dataset.dropna(inplace=True)
DropNa(rows) == SelectSeq(rows, LAMBDA r : ~HasNa(r))

ColIndex(cols, c) ==
    IF \E j \in 1..Len(cols) : cols[j] = c
    THEN CHOOSE j \in 1..Len(cols) : cols[j] = c
    ELSE 0

Without(s, j) == [i \in 1..(Len(s) - 1) |-> IF i < j THEN s[i] ELSE s[i + 1]]

Result(kind, err, cols, rows, y) ==
    [cols |-> cols, rows |-> rows, kind |-> kind, err |-> err, y |-> y]

Raise(err) == Result("error", err, <<>>, <<>>, <<>>)

\* Lines 89-96 on a parsed table.
PostProcess(cols, rows0, dropna, return_X_y) ==
    LET rows == IF dropna THEN DropNa(rows0) ELSE rows0
        t == ColIndex(cols, "target")
    IN  IF ~return_X_y THEN Result("dataset", "", cols, rows, <<>>)
        ELSE IF t = 0 THEN Raise("KeyError: target")
        ELSE Result("X_y", "", Without(cols, t),
                    [i \in 1..Len(rows) |-> Without(rows[i], t)],
                    [i \in 1..Len(rows) |-> rows[i][t]])


(***************************************************************************)
(* State.  files and dirs are the local file system under the cache roots, *)
(* last is the record of the most recent sequential call, procs and wlog   *)
(* belong to the two concurrent callers, flt to filter_datasets.           *)
(***************************************************************************)
VARIABLES files, dirs, last, procs, wlog, flt

vars == <<files, dirs, last, procs, wlog, flt>>

(***************************************************************************)
(* Lines 70-71 and 83: the cache path and its parent directory.            *)
(***************************************************************************)
\* A faulty variant: the name left out of the directory part of the path.
CachePathFlat(root, name) == <<root, "a", "a" \o suffix>>

\* os.path.join(local_cache_dir, dataset_name, dataset_name+suffix)
CachePath(root, name) == <<root, name, name \o suffix>>

\* os.path.split(dataset_path)[0]
DatasetDir(path) == <<path[1], path[2]>>

FilePaths == {<<r, n, n \o suffix>> : r \in Roots, n \in Names}

DirPaths == {DatasetDir(p) : p \in FilePaths}

\* os.path.exists(dataset_path)
Exists(fl, path) == fl[path].kind /= "absent"

\* os.path.isdir(dataset_dir)
IsDir(dr, dir) == dir \in dr

(***************************************************************************)
(* Lines 64-68 and 78-82: validate against the Catalog, check the URL,     *)
(* download and parse.                                                     *)
(***************************************************************************)
\* A faulty variant: the Catalog check dropped.
InCatalogAlways(name) == TRUE

\* dataset_name in dataset_names
InCatalog(name) == name \in dataset_names

\* A faulty variant: the comparison of line 107 inverted.
StatusOkInverted(code) == code /= 200

\* re.status_code != 200 does not hold
StatusOk(code) == code = 200

\* What the download of line 68/82 may deliver: a hosted file, or a failure
\* of the transfer or of the parse.
Downloads == RemoteFiles \cup {Corrupt}

Answer(conn, code, body) == [conn |-> conn, body |-> body, status_code |-> code]

\* The remote is not asked, or cannot be reached.
NoAnswer == Answer(FALSE, 0, NoFile)

\* What the remote may answer to one call: no connection, a status other
\* than 200 to requests.get, or 200 and then the download.
Answers ==
    {NoAnswer, Answer(TRUE, 404, NoFile)}
        \cup {Answer(TRUE, 200, d) : d \in Downloads}

\* get_dataset_url: the error it raises, "" when it returns the URL.
GetDatasetUrl(reply) ==
    IF ~reply.conn THEN "ConnectionError"
    ELSE IF ~StatusOk(reply.status_code) THEN UnknownDataset
    ELSE ""

Fetched(err, parsed, catalog, status, downloads) ==
    [err |-> err, parsed |-> parsed, catalog |-> catalog,
     status |-> status, downloads |-> downloads]

\* Lines 64-68 (and 78-82): the error or the parsed download, with the
\* number of Catalog checks, existence requests and downloads made.
FetchRemote(name, reply) ==
    IF ~InCatalog(name)
    THEN Fetched(UnknownDataset, ReadCsv(NoFile), 1, 0, 0)
    ELSE IF GetDatasetUrl(reply) /= ""
    THEN Fetched(GetDatasetUrl(reply), ReadCsv(NoFile), 1, 1, 0)
    ELSE IF ~ReadCsv(reply.body).ok
    THEN Fetched("ParserError", ReadCsv(reply.body), 1, 1, 1)
    ELSE Fetched("", ReadCsv(reply.body), 1, 1, 1)

\* Line 75: the cached file parsed, with no Catalog check and no request.
FetchCached(fl, path) ==
    IF ~ReadCsv(fl[path]).ok
    THEN Fetched("ParserError", ReadCsv(fl[path]), 0, 0, 0)
    ELSE Fetched("", ReadCsv(fl[path]), 0, 0, 0)

(***************************************************************************)
(* Lines 83-87: the cache entry written after a successful download.       *)
(***************************************************************************)
\* A faulty variant: the directory made before the download is validated.
DirsAfterMissEager(dr, path, got) == dr \cup {DatasetDir(path)}

\* if not os.path.isdir(dataset_dir): os.makedirs(dataset_dir)
DirsAfterMiss(dr, path, got) ==
    IF got.err = "" /\ ~IsDir(dr, DatasetDir(path))
    THEN dr \cup {DatasetDir(path)}
    ELSE dr

\* A faulty variant: the cache written on every call with a cache root.
FilesAfterAlways(fl, path, hit, got) ==
    IF got.err = "" THEN [fl EXCEPT ![path] = ToCsv(got.parsed)] ELSE fl

\* dataset.to_csv(dataset_path, ...), reached on a miss that downloaded.
FilesAfter(fl, path, hit, got) ==
    IF ~hit /\ got.err = ""
    THEN [fl EXCEPT ![path] = ToCsv(got.parsed)]
    ELSE fl

(***************************************************************************)
(* The record of a call.                                                   *)
(***************************************************************************)
\* What the caller and the environment see of a call: its arguments, the
\* remote's answer (code and served: the status it gives and whether what
\* it serves parses), what the call did (hit, and the numbers of Catalog
\* checks, existence requests and downloads), the row count of the parsed
\* source, the outcome, and whether the call before it was a miss with the
\* same identifier, cache root and dropna that populated the cache.
CallRecord(op, name, root, rxy, dropna, hit, got, reply, repeat, out) ==
    [dropna |-> dropna, return_X_y |-> rxy, root |-> root, name |-> name,
     code |-> reply.status_code, catalog |-> got.catalog,
     status |-> got.status, downloads |-> got.downloads, hit |-> hit,
     op |-> op, repeat |-> repeat, out |-> out,
     served |-> ReadCsv(reply.body).ok, nsrc |-> Len(got.parsed.rows)]

NoCall(op) ==
    CallRecord(op, "", None, FALSE, FALSE, FALSE,
               Fetched("", ReadCsv(NoFile), 0, 0, 0), NoAnswer, FALSE,
               Raise(""))

\* The call recorded in rec missed the cache, downloaded and wrote the entry.
Populated(rec) ==
    /\ rec.op = "fetch"
    /\ rec.root /= None
    /\ ~rec.hit
    /\ rec.out.kind /= "error"

(***************************************************************************)
(* fetch_data(dataset_name, return_X_y, local_cache_dir, dropna), a whole  *)
(* call by a single caller.  reply is what the remote answers to the       *)
(* existence check and to the download, when the call makes them.          *)
(***************************************************************************)
\* A faulty variant: the identifier validated before the cache is looked at.
CacheHitValidated(fl, name, root) ==
    root /= None /\ InCatalog(name) /\ Exists(fl, CachePath(root, name))

\* Line 63 and 74: the call reads the cache entry.
CacheHit(fl, name, root) == root /= None /\ Exists(fl, CachePath(root, name))

FetchData(name, rxy, root, dropna, reply) ==
    LET path == CachePath(root, name)
        hit == CacheHit(files, name, root)
    IN  \E got \in {IF hit THEN FetchCached(files, path)
                    ELSE FetchRemote(name, reply)} :
        \E out \in {IF got.err /= "" THEN Raise(got.err)
                    ELSE PostProcess(got.parsed.cols, got.parsed.rows,
                                     dropna, rxy)} :
            /\ files' = IF root = None THEN files
                        ELSE FilesAfter(files, path, hit, got)
            /\ dirs' = IF root = None \/ hit THEN dirs
                       ELSE DirsAfterMiss(dirs, path, got)
            /\ last' = CallRecord("fetch", name, root, rxy, dropna, hit, got,
                                  reply,
                                  /\ Populated(last)
                                  /\ last.name = name
                                  /\ last.root = root
                                  /\ last.dropna = dropna,
                                  out)
            /\ UNCHANGED <<procs, wlog, flt>>

\* The identifiers the single caller passes: a Catalog name and an unknown one.
CallerNames == classification_dataset_names \cup (Names \ dataset_names)

\* What the remote would answer during the call.  A call that reads the cache
\* never asks: for it an unreachable remote and one where the file is gone
\* stand for all answers.
AnswersTo(name, root) ==
    IF CacheHit(files, name, root)
    THEN {NoAnswer, Answer(TRUE, 404, NoFile)}
    ELSE Answers

Fetch ==
    \E name \in CallerNames, rxy \in BOOLEAN, root \in Roots \cup {None},
       dropna \in BOOLEAN :
        \E reply \in AnswersTo(name, root) :
            FetchData(name, rxy, root, dropna, reply)

(***************************************************************************)
(* The user, between calls: a file put at a cache path (a stale, foreign   *)
(* or damaged entry), or a cache entry deleted by hand.                    *)
(***************************************************************************)
UserFiles == {ToCsv(ReadCsv(f)) : f \in RemoteFiles} \cup {NoTargetFile, Corrupt}

\* The cache paths of the single caller's identifiers.
SeqPaths == {CachePath(r, n) : r \in Roots, n \in CallerNames}

PlantFile ==
    \E path \in SeqPaths, f \in UserFiles :
        /\ files[path] /= f
        /\ files' = [files EXCEPT ![path] = f]
        /\ dirs' = dirs \cup {DatasetDir(path)}
        /\ last' = NoCall("plant")
        /\ UNCHANGED <<procs, wlog, flt>>

DeleteFile ==
    \E path \in SeqPaths :
        /\ Exists(files, path)
        /\ files' = [files EXCEPT ![path] = NoFile]
        /\ last' = NoCall("delete")
        /\ UNCHANGED <<dirs, procs, wlog, flt>>

(***************************************************************************)
(* Two callers running fetch_data concurrently (threads or processes over  *)
(* one cache root), one step per access to the file system or the remote.  *)
(* Each passes a cache root and the default return_X_y=False, dropna=True. *)
(***************************************************************************)
Procs == {1, 2}

Proc(pc, name, root, ds, torn, out) ==
    [ds |-> ds, root |-> root, name |-> name, out |-> out, pc |-> pc,
     torn |-> torn]

Idle == Proc("idle", "", None, ReadCsv(NoFile), FALSE, Raise(""))

PathOf(p) == CachePath(procs[p].root, procs[p].name)

Goto(p, pc) == procs' = [procs EXCEPT ![p].pc = pc]

Fail(p, err) == procs' = [procs EXCEPT ![p].pc = "done", ![p].out = Raise(err)]

\* Line 63: the call starts; with a cache root it goes on to line 70.
Call(p) ==
    /\ procs[p].pc = "idle"
    /\ \E name \in Names, root \in Roots :
        procs' = [procs EXCEPT ![p] =
                     Proc(IF root = None THEN "validate" ELSE "exists",
                          name, root, ReadCsv(NoFile), FALSE, Raise(""))]
    /\ UNCHANGED <<files, dirs, last, wlog, flt>>

\* Line 74: if os.path.exists(dataset_path)
CheckExists(p) ==
    /\ procs[p].pc = "exists"
    /\ Goto(p, IF Exists(files, PathOf(p)) THEN "read" ELSE "validate")
    /\ UNCHANGED <<files, dirs, last, wlog, flt>>

\* Line 75: the cached file is read as it is at this moment.
ReadCache(p) ==
    /\ procs[p].pc = "read"
    /\ \E got \in {FetchCached(files, PathOf(p))} :
        IF got.err /= "" THEN Fail(p, got.err)
        ELSE procs' = [procs EXCEPT ![p].pc = "post", ![p].ds = got.parsed]
    /\ UNCHANGED <<files, dirs, last, wlog, flt>>

\* Lines 78-79 (64-65): if dataset_name not in dataset_names: raise
Validate(p) ==
    /\ procs[p].pc = "validate"
    /\ IF InCatalog(procs[p].name) THEN Goto(p, "geturl")
       ELSE Fail(p, UnknownDataset)
    /\ UNCHANGED <<files, dirs, last, wlog, flt>>

\* Lines 80-81 and 99-109: get_dataset_url, the existence check.
GetUrl(p) ==
    /\ procs[p].pc = "geturl"
    /\ \E reply \in {NoAnswer, Answer(TRUE, 404, NoFile),
                     Answer(TRUE, 200, NoFile)} :
        IF GetDatasetUrl(reply) = "" THEN Goto(p, "download")
        ELSE Fail(p, GetDatasetUrl(reply))
    /\ UNCHANGED <<files, dirs, last, wlog, flt>>

\* Line 82: pd.read_csv(dataset_url, ...), a second request to the remote.
Download(p) ==
    /\ procs[p].pc = "download"
    /\ \E body \in Downloads :
        \E got \in {FetchRemote(procs[p].name, Answer(TRUE, 200, body))} :
            IF got.err /= "" THEN Fail(p, got.err)
            ELSE procs' = [procs EXCEPT ![p].pc = "isdir",
                                        ![p].ds = got.parsed]
    /\ UNCHANGED <<files, dirs, last, wlog, flt>>

\* Line 84: if not os.path.isdir(dataset_dir)
CheckIsDir(p) ==
    /\ procs[p].pc = "isdir"
    /\ Goto(p, IF IsDir(dirs, DatasetDir(PathOf(p))) THEN "open"
               ELSE "makedirs")
    /\ UNCHANGED <<files, dirs, last, wlog, flt>>

\* Line 85: os.makedirs(dataset_dir), which raises when the directory has
\* been made since line 84.
MakeDirs(p) ==
    /\ procs[p].pc = "makedirs"
    /\ IF IsDir(dirs, DatasetDir(PathOf(p)))
       THEN Fail(p, "FileExistsError") /\ dirs' = dirs
       ELSE Goto(p, "open") /\ dirs' = dirs \cup {DatasetDir(PathOf(p))}
    /\ UNCHANGED <<files, last, wlog, flt>>

\* Lines 86-87, first half: to_csv opens the file for writing, which
\* creates it empty or truncates it; an empty file does not parse.
ToCsvOpen(p) ==
    /\ procs[p].pc = "open"
    /\ files' = [files EXCEPT ![PathOf(p)] = Corrupt]
    /\ procs' = [procs EXCEPT ![p].pc = "write", ![p].torn = FALSE]
    /\ UNCHANGED <<dirs, last, wlog, flt>>

\* The other callers that have the same file open for writing.
OpenWriters(p) ==
    {q \in Procs \ {p} : procs[q].pc = "write" /\ PathOf(q) = PathOf(p)}

\* What the file holds once p's bytes are written over what is there: p's
\* content, or, when another caller wrote other bytes since p opened the
\* file (nothing truncates them at close), possibly p's bytes followed by
\* a tail of the other's, which does not parse.
Written(p) ==
    IF procs[p].torn /\ files[PathOf(p)] /= ToCsv(procs[p].ds)
    THEN {ToCsv(procs[p].ds), Corrupt}
    ELSE {ToCsv(procs[p].ds)}

\* Lines 86-87, second half: the bytes are written and the file closed.
ToCsvWrite(p) ==
    /\ procs[p].pc = "write"
    /\ \E f \in Written(p) :
        /\ files' = [files EXCEPT ![PathOf(p)] = f]
        /\ wlog' = Append(wlog, [path |-> PathOf(p), p |-> p,
                                 torn |-> procs[p].torn,
                                 content |-> ToCsv(procs[p].ds)])
    /\ procs' = [q \in Procs |->
                   IF q = p THEN [procs[q] EXCEPT !.pc = "post"]
                   ELSE IF q \in OpenWriters(p)
                   THEN [procs[q] EXCEPT !.torn = TRUE]
                   ELSE procs[q]]
    /\ UNCHANGED <<dirs, last, flt>>

\* Lines 89-96 with the default flags, and the return.
Return(p) ==
    /\ procs[p].pc = "post"
    /\ procs' = [procs EXCEPT ![p].pc = "done",
                    ![p].out = PostProcess(procs[p].ds.cols, procs[p].ds.rows,
                                           TRUE, FALSE)]
    /\ UNCHANGED <<files, dirs, last, wlog, flt>>

Step(p) ==
    \/ Call(p)
    \/ CheckExists(p)
    \/ ReadCache(p)
    \/ Validate(p)
    \/ GetUrl(p)
    \/ Download(p)
    \/ CheckIsDir(p)
    \/ MakeDirs(p)
    \/ ToCsvOpen(p)
    \/ ToCsvWrite(p)
    \/ Return(p)

(***************************************************************************)
(* filter_datasets (lines 137-188).  An argument left at None is the empty *)
(* tuple, a given one the tuple of its value.  The summary table is what   *)
(* the remote serves at the fixed URL of line 169.                         *)
(***************************************************************************)
\* The largest number of rows of the summary table.
MaxTable == 2

SummaryRow(dataset, instances, features, classes, imbalance, endpoint, task) ==
    [dataset |-> dataset, instances |-> instances, features |-> features,
     Classes |-> classes, Imbalance_metric |-> imbalance,
     Endpoint_type |-> endpoint, problem_type |-> task]

\* The rows the summary table is made of.
SummaryRows ==
    {SummaryRow("a", 1, 2, 2, 0, "binary", "classification"),
     SummaryRow("b", 2, 1, 0, 1, "continuous", "regression"),
     SummaryRow("c", 2, 2, 3, 1, "categorical", "classification")}

\* pd.read_csv(url) of line 169: the table, or a failure that propagates.
Tables ==
    {[rows |-> rs, ok |-> TRUE] : rs \in SeqsUpTo(SummaryRows, MaxTable)}
        \cup {[rows |-> <<>>, ok |-> FALSE]}

Given(arg) == arg /= <<>>

FilterArgs ==
    [task : {<<>>, <<"classification">>, <<"regression">>},
     obs_min : {<<>>, <<2>>, <<3>>}, obs_max : {<<>>, <<1>>},
     feat_min : {<<>>, <<2>>}, feat_max : {<<>>, <<1>>},
     class_min : {<<>>, <<2>>}, class_max : {<<>>, <<2>>},
     endpt : {<<>>, <<"binary">>, <<"continuous">>},
     max_imbalance : {<<>>, <<1>>}]

Names_(kind, err, names) == [kind |-> kind, err |-> err, names |-> names]

\* The names filter_datasets can read: its parameters and its one local
\* variable (line 137, 169), and the names bound at module level (lines
\* 26-38, 99, 112, 137).  Python's names are case-sensitive.
FilterLocals ==
    {"obs_min", "obs_max", "feat_min", "feat_max", "class_min", "class_max",
     "endpt", "max_imbalance", "task", "tempdf"}

ModuleGlobals ==
    {"pd", "os", "classification_dataset_names", "regression_dataset_names",
     "requests", "warnings", "subprocess", "pathlib", "dataset_names",
     "GITHUB_URL", "suffix", "fetch_data", "get_dataset_url",
     "get_updated_datasets", "filter_datasets"}

Bound(name) == name \in FilterLocals \cup ModuleGlobals

NameError(name) == "NameError: name '" \o name \o "' is not defined"

\* Lines 170-173: the bounds on '#instances'.
AfterObs(rows, args) ==
    SelectSeq(rows, LAMBDA r :
        /\ Given(args.obs_min) => r.instances >= args.obs_min[1]
        /\ Given(args.obs_max) => r.instances <= args.obs_max[1])

\* Lines 175 and 177: the bounds on '#features'.
AfterFeat(rows, args) ==
    SelectSeq(rows, LAMBDA r :
        /\ Given(args.feat_min) => r.features >= args.feat_min[1]
        /\ Given(args.feat_max) => r.features <= args.feat_max[1])

\* Lines 178-181: the bounds on '#Classes'.
AfterClass(rows, args) ==
    SelectSeq(rows, LAMBDA r :
        /\ Given(args.class_min) => r.Classes >= args.class_min[1]
        /\ Given(args.class_max) => r.Classes <= args.class_max[1])

\* Lines 182-187: 'Imbalance_metric', 'Endpoint_type' and 'problem_type'.
AfterRest(rows, args) ==
    SelectSeq(rows, LAMBDA r :
        /\ Given(args.max_imbalance) => r.Imbalance_metric < args.max_imbalance[1]
        /\ Given(args.endpt) => r.Endpoint_type = args.endpt[1]
        /\ Given(args.task) => r.problem_type = args.task[1])

\* Line 188: list(tempdf['dataset'].values)
DatasetColumn(rows) == [i \in 1..Len(rows) |-> rows[i].dataset]

\* Lines 169-188.  The conditions of lines 174 and 176 read feat_Min and
\* feat_Max, where the parameters are feat_min and feat_max: reading an
\* unbound name raises NameError before the condition has a value.
FilterOutcome(table, args) ==
    IF ~table.ok THEN Names_("error", "URLError", <<>>)
    ELSE IF ~Bound("feat_Min") THEN Names_("error", NameError("feat_Min"), <<>>)
    ELSE IF ~Bound("feat_Max") THEN Names_("error", NameError("feat_Max"), <<>>)
    ELSE Names_("list", "",
                DatasetColumn(AfterRest(AfterClass(AfterFeat(
                    AfterObs(table.rows, args), args), args), args)))

FilterCall(table, args, done, out) ==
    [out |-> out, done |-> done, args |-> args, table |-> table]

NoFilterCall ==
    FilterCall([rows |-> <<>>, ok |-> FALSE],
               [task |-> <<>>, obs_min |-> <<>>, obs_max |-> <<>>,
                feat_min |-> <<>>, feat_max |-> <<>>, class_min |-> <<>>,
                class_max |-> <<>>, endpt |-> <<>>, max_imbalance |-> <<>>],
               TRUE, Names_("error", "", <<>>))

\* filter_datasets(obs_min, ..., task), a whole call.
FilterDatasets ==
    /\ ~flt.done
    /\ flt' = [flt EXCEPT !.done = TRUE,
                          !.out = FilterOutcome(flt.table, flt.args)]
    /\ UNCHANGED <<files, dirs, last, procs, wlog>>

(***************************************************************************)
(* The specifications.                                                     *)
(***************************************************************************)
Init ==
    /\ files = [p \in FilePaths |-> NoFile]
    /\ dirs = {}
    /\ last = NoCall("none")
    /\ procs = [p \in Procs |-> Idle]
    /\ wlog = <<>>
    /\ flt = NoFilterCall

\* A single caller and the user.
Next == Fetch \/ PlantFile \/ DeleteFile

Spec == Init /\ [][Next]_vars

\* Two concurrent callers over an initially empty cache.
NextConc == \E p \in Procs : Step(p)

SpecConc == Init /\ [][NextConc]_vars

\* filter_datasets applied to every table and every choice of arguments.
InitFilter ==
    /\ files = [p \in FilePaths |-> NoFile]
    /\ dirs = {}
    /\ last = NoCall("none")
    /\ procs = [p \in Procs |-> Idle]
    /\ wlog = <<>>
    /\ \E table \in Tables, args \in FilterArgs :
        flt = FilterCall(table, args, FALSE, Names_("error", "", <<>>))

NextFilter == FilterDatasets

SpecFilter == InitFilter /\ [][NextFilter]_vars


(***************************************************************************)
(* The claims about fetch_data by a single caller, under Spec.             *)
(***************************************************************************)
IsFetch(rec) == rec.op = "fetch"

Failed(rec) == rec.out.kind = "error"

NoNetwork(rec) == rec.status = 0 /\ rec.downloads = 0

\* C1: a fetch without a cache root of an identifier that is not in the
\* Catalog fails with UnknownDataset, whatever return_X_y and dropna are and
\* whatever the remote would answer.
C1_UnknownWithoutCacheRoot ==
    (IsFetch(last) /\ last.root = None /\ last.name \notin dataset_names)
        => (Failed(last) /\ last.out.err = UnknownDataset)

C1_Witness ==
    /\ IsFetch(last)
    /\ last.root = None
    /\ last.name \notin dataset_names
    /\ last.code = 200
    /\ last.served
    /\ last.out.err = UnknownDataset

\* C2: a fetch without a cache root of an identifier in the Catalog, when
\* the remote answers the existence check with 200 and serves a file that
\* parses, succeeds; the data set it returns has the `target` column, or,
\* with return_X_y, the labels are that column and the features the rest.
C2_CatalogFetchSucceeds ==
    (/\ IsFetch(last)
     /\ last.root = None
     /\ last.name \in dataset_names
     /\ last.code = 200
     /\ last.served)
        => /\ ~Failed(last)
           /\ ~last.return_X_y =>
                /\ last.out.kind = "dataset"
                /\ ColIndex(last.out.cols, "target") /= 0
           /\ last.return_X_y =>
                /\ last.out.kind = "X_y"
                /\ ColIndex(last.out.cols, "target") = 0
                /\ Len(last.out.y) = Len(last.out.rows)

C2_Witness ==
    /\ IsFetch(last)
    /\ last.root = None
    /\ last.name \in dataset_names
    /\ last.code = 200
    /\ last.served
    /\ last.return_X_y
    /\ last.out.kind = "X_y"
    /\ Len(last.out.y) = MaxRows

\* The data of an outcome, whichever way it was returned: the features and
\* the labels.
Underlying(out) ==
    IF out.kind = "dataset"
    THEN PostProcess(out.cols, out.rows, FALSE, TRUE)
    ELSE out

\* C3: when a fetch with a cache root misses and populates the cache, the
\* next fetch of the same identifier with the same cache root and dropna
\* hits the cache, makes no existence request and no download, and returns
\* the same data as the first.
C3_SecondFetchFromCache ==
    [][(/\ Populated(last)
        /\ IsFetch(last')
        /\ last'.name = last.name
        /\ last'.root = last.root
        /\ last'.dropna = last.dropna)
           => /\ last'.hit
              /\ NoNetwork(last')
              /\ ~Failed(last')
              /\ Underlying(last'.out) = Underlying(last.out)]_vars

C3_Witness ==
    /\ IsFetch(last)
    /\ last.repeat
    /\ last.hit
    /\ last.code = 404
    /\ NoNetwork(last)
    /\ last.nsrc = MaxRows
    /\ Len(last.out.rows) < last.nsrc

\* C4: when a file exists at the cache path of the identifier, a fetch with
\* that cache root reads it without a Catalog check and without a request
\* to the remote, never fails with UnknownDataset, and returns the contents
\* of the file (a table that parses, with a `target` column if return_X_y
\* asks for it), also for an identifier that is not in the Catalog.
C4_CacheBypass ==
    [][(/\ IsFetch(last')
        /\ last'.root /= None
        /\ Exists(files, CachePath(last'.root, last'.name)))
           => LET file == files[CachePath(last'.root, last'.name)]
                  table == ReadCsv(file)
              IN  /\ last'.hit
                  /\ last'.catalog = 0
                  /\ NoNetwork(last')
                  /\ last'.out.err /= UnknownDataset
                  /\ (/\ table.ok
                      /\ last'.return_X_y => ColIndex(table.cols, "target") /= 0)
                        => /\ ~Failed(last')
                           /\ last'.out = PostProcess(table.cols, table.rows,
                                              last'.dropna, last'.return_X_y)]_vars

C4_Witness ==
    /\ IsFetch(last)
    /\ last.hit
    /\ last.name \notin dataset_names
    /\ last.out.kind = "dataset"
    /\ Len(last.out.rows) > 0

\* C6: with dropna=True no row of the returned data holds a missing value;
\* with dropna=False the returned data has as many rows as the parsed source
\* (the download, or the cache file on a hit).
C6_DropNa ==
    (IsFetch(last) /\ ~Failed(last))
        => /\ last.dropna =>
                /\ \A i \in 1..Len(last.out.rows) : ~HasNa(last.out.rows[i])
                /\ ~HasNa(last.out.y)
           /\ ~last.dropna => Len(last.out.rows) = last.nsrc

C6_Witness ==
    /\ IsFetch(last)
    /\ ~Failed(last)
    /\ last.dropna
    /\ last.nsrc = MaxRows
    /\ Len(last.out.rows) = 1

\* C8: a fetch without a cache root, and a fetch that hits the cache, leave
\* the file system as it is.  A fetch that misses checks the Catalog; when it
\* succeeds it has made the existence request and the download, the parent
\* directory exists, the file at the cache path parses back to the returned
\* data, and no other path has changed; when it fails nothing is written.
C8_WritesOnlyOnMiss ==
    [][IsFetch(last') =>
         IF last'.root = None \/ last'.hit
         THEN files' = files /\ dirs' = dirs
         ELSE LET path == CachePath(last'.root, last'.name)
                  back == ReadCsv(files'[path])
              IN  /\ last'.catalog = 1
                  /\ \A q \in FilePaths \ {path} : files'[q] = files[q]
                  /\ IF Failed(last')
                     THEN files' = files
                     ELSE /\ last'.status = 1
                          /\ last'.downloads = 1
                          /\ dirs' = dirs \cup {DatasetDir(path)}
                          /\ back.ok
                          /\ last'.out = PostProcess(back.cols, back.rows,
                                             last'.dropna, last'.return_X_y)]_vars

C8_Witness ==
    /\ Populated(last)
    /\ last.nsrc = MaxRows
    /\ files[CachePath(last.root, last.name)].kind = "tsv"
    /\ DatasetDir(CachePath(last.root, last.name)) \in dirs

\* C10: a fetch with a cache root that misses and fails with UnknownDataset
\* (identifier not in the Catalog, or a status other than 200) leaves files
\* and directories as they were, and the next fetch of the same identifier
\* with the same cache root misses again.
C10_FailedMissLeavesCache ==
    [][/\ (/\ IsFetch(last')
           /\ last'.root /= None
           /\ ~last'.hit
           /\ last'.out.err = UnknownDataset)
              => /\ files' = files
                 /\ dirs' = dirs
                 /\ ~CacheHit(files', last'.name, last'.root)
       /\ (/\ IsFetch(last)
           /\ last.root /= None
           /\ ~last.hit
           /\ last.out.err = UnknownDataset
           /\ IsFetch(last')
           /\ last'.name = last.name
           /\ last'.root = last.root)
              => ~last'.hit]_vars

C10_Witness ==
    /\ IsFetch(last)
    /\ last.root /= None
    /\ ~last.hit
    /\ last.name \in dataset_names
    /\ last.code = 404
    /\ last.out.err = UnknownDataset
    /\ DatasetDir(CachePath(last.root, last.name)) \notin dirs

(***************************************************************************)
(* The claim about concurrent callers, under SpecConc.                     *)
(***************************************************************************)
AllDone == \A p \in Procs : procs[p].pc = "done"

\* The writes to path that have finished, in the order they finished.
WritesTo(path) == SelectSeq(wlog, LAMBDA w : w.path = path)

\* No caller is between the open and the close of path.
NoneWriting(path) ==
    \A p \in Procs : ~(procs[p].pc = "write" /\ PathOf(p) = path)

\* Fetches of different identifiers never write the same cache path.
DistinctNamesDistinctPaths ==
    \A i, j \in 1..Len(wlog) :
        procs[wlog[i].p].name /= procs[wlog[j].p].name
            => wlog[i].path /= wlog[j].path

\* C9 as stated: uncoordinated callers may both write the cache path of one
\* identifier, and the file left is the content of the writer that finished
\* last; fetches of different identifiers never write the same cache path.
C9_LastWriterWins ==
    /\ \A path \in FilePaths :
        (WritesTo(path) /= <<>> /\ NoneWriting(path))
            => files[path] = WritesTo(path)[Len(WritesTo(path))].content
    /\ DistinctNamesDistinctPaths

\* C9 as amended: the file left is the content of the writer that finished
\* last, unless that writer had the file open while another wrote other
\* bytes to it, in which case the file may also be left unparseable;
\* fetches of different identifiers never write the same cache path.
C9_LastWriterWinsUnlessTorn ==
    /\ \A path \in FilePaths :
        (WritesTo(path) /= <<>> /\ NoneWriting(path))
            => LET w == WritesTo(path)[Len(WritesTo(path))]
               IN  \/ files[path] = w.content
                   \/ w.torn /\ files[path] = Corrupt
    /\ DistinctNamesDistinctPaths

\* Both callers fetched one identifier, both found the cache empty, both
\* downloaded and both wrote the path, with different contents.
C9_Witness ==
    /\ AllDone
    /\ Len(wlog) = 2
    /\ wlog[1].p /= wlog[2].p
    /\ procs[1].name = procs[2].name
    /\ wlog[1].path = wlog[2].path
    /\ wlog[1].content /= wlog[2].content
    /\ files[wlog[2].path] = wlog[2].content

(***************************************************************************)
(* The claims about filter_datasets, under SpecFilter.                     *)
(***************************************************************************)
\* A row meets every constraint that is given.
Satisfies(r, args) ==
    /\ Given(args.obs_min) => r.instances >= args.obs_min[1]
    /\ Given(args.obs_max) => r.instances <= args.obs_max[1]
    /\ Given(args.feat_min) => r.features >= args.feat_min[1]
    /\ Given(args.feat_max) => r.features <= args.feat_max[1]
    /\ Given(args.class_min) => r.Classes >= args.class_min[1]
    /\ Given(args.class_max) => r.Classes <= args.class_max[1]
    /\ Given(args.max_imbalance) => r.Imbalance_metric < args.max_imbalance[1]
    /\ Given(args.endpt) => r.Endpoint_type = args.endpt[1]
    /\ Given(args.task) => r.problem_type = args.task[1]

Unconstrained(args) ==
    \A f \in DOMAIN args : ~Given(args[f])

Returned == flt.done /\ flt.table.ok

\* C5: once the summary table is retrieved, filter_datasets returns a list
\* and never an error: every identifier of the table when no constraint is
\* given, the empty list when obs_min is above every instance count.
C5_FilterNeverFails ==
    Returned =>
        /\ flt.out.kind = "list"
        /\ Unconstrained(flt.args)
             => flt.out.names = DatasetColumn(flt.table.rows)
        /\ (/\ Given(flt.args.obs_min)
            /\ \A i \in 1..Len(flt.table.rows) :
                 flt.table.rows[i].instances < flt.args.obs_min[1])
             => flt.out.names = <<>>

\* C7: filter_datasets returns exactly the identifiers of the rows that meet
\* all the given constraints, in the order of the table.
C7_FilterSelectsMatchingRows ==
    Returned =>
        /\ flt.out.kind = "list"
        /\ flt.out.names =
             DatasetColumn(SelectSeq(flt.table.rows,
                                     LAMBDA r : Satisfies(r, flt.args)))

=============================================================================
